---- MODULE Spec2Model ----
(***************************************************************************)
(* Model of the book-tracker Cloud Functions (functions/src/index.ts):     *)
(* the scheduled batch job dailyBookSearch, the aggregator                 *)
(* searchAllPlatforms with its two connectors, the notification pipeline   *)
(* (sendEmailToUser, saveNotifications) and the callable operations        *)
(* searchBook and markNotificationRead.                                    *)
(*                                                                         *)
(* Time is counted in milliseconds, as Date.now() does.  The documents of  *)
(* the users and books collections are fixed; the batch job only writes    *)
(* books/<id>.lastSearched and the notifications collection.               *)
(***************************************************************************)
EXTENDS Integers, Sequences, FiniteSets, TLC

(***************************************************************************)
(* Bounds of the model.                                                    *)
(***************************************************************************)
\* scheduled runs of dailyBookSearch in one behaviour
MaxRuns == 2
\* aggregator invocations of the batch job in one behaviour
MaxSearches == 4
\* rejected awaits (Firestore reads/writes, sendMail) in one behaviour
MaxFailures == 1
\* milliseconds one aggregator invocation takes
SearchMs == 1
\* rows one connector returns to a callable request
MaxLen == 2
\* callable requests in one behaviour
MaxCalls == 1
\* runs of cleanupOldNotifications in one behaviour
MaxSweeps == 2
\* notifications younger than 30 days at the first sweep
MaxYoung == 3
\* rows of a Craigslist page handed to searchCraigslist
MaxRows == 2
\* posts of one Reddit response handed to searchReddit
MaxPosts == 2
\* posts of the three Reddit responses of one call together
MaxFeedPosts == 3

(***************************************************************************)
(* Program constants.                                                      *)
(***************************************************************************)
\* book.lastSearched absent: `lastSearched` is null
NoTime == -1
SixHoursMs == 6 * 60 * 60 * 1000
BookDelayMs == 2000
UserDelayMs == 1000
\* cleanupOldNotifications: .limit(500)
CleanupLimit == 500
\* cleanupOldNotifications: getDate() - 30
RetentionDays == 30
HourMs == 60 * 60 * 1000
DayMs == 24 * HourMs

(***************************************************************************)
(* The stored users and books.                                             *)
(***************************************************************************)
NoAuthor == "undefined"
Undefined == "undefined"
Null == "null"

\* users collection, in the order a query returns the documents
UserIds == <<"u1", "u2", "u3", "u4">>

UserDoc(u) ==
    CASE u = "u1" -> [email |-> "u1@mail", displayName |-> "Ann", notifications |-> "true"]
      [] u = "u2" -> [email |-> "u2@mail", displayName |-> "Bob", notifications |-> "true"]
      [] u = "u3" -> [email |-> "u3@mail", displayName |-> "Cy", notifications |-> "false"]
      [] u = "u4" -> [email |-> "u4@mail", displayName |-> "Di", notifications |-> Undefined]

\* books collection, in the order a query returns the documents
BookIds == <<"b1", "b2", "b3", "b4", "b5">>

Books == {BookIds[i] : i \in 1..Len(BookIds)}

BookDoc(b) ==
    CASE b = "b1" -> [title |-> "Dune", author |-> "Herbert", userId |-> "u1"]
      [] b = "b2" -> [title |-> "Emma", author |-> NoAuthor, userId |-> "u1"]
      [] b = "b3" -> [title |-> "Ulysses", author |-> "Joyce", userId |-> "u2"]
      [] b = "b4" -> [title |-> "Walden", author |-> NoAuthor, userId |-> "u3"]
      [] b = "b5" -> [title |-> "Ivanhoe", author |-> "Scott", userId |-> "u4"]

UsersWithNotifications_All == UserIds

\* db.collection('users').where('notifications', '==', true).get()
UsersWithNotifications ==
    LET Keep(u) == UserDoc(u).notifications = "true"
    IN  SelectSeq(UserIds, Keep)

\* db.collection('books').where('userId', '==', userDoc.id).get()
BooksOfUser(u) ==
    LET Keep(b) == BookDoc(b).userId = u
    IN  SelectSeq(BookIds, Keep)

(***************************************************************************)
(* Search results and the aggregator.                                      *)
(***************************************************************************)
Links == {"L1", "L2"}
Titles == {"t1", "t2"}

\* what searchCraigslist pushes for a kept row
CraigslistResult(title, link) ==
    [title |-> title, link |-> link, source |-> "Craigslist",
     condition |-> "Used", seller |-> Undefined]

\* what searchReddit pushes for a kept post
RedditResult(title, link) ==
    [title |-> title, link |-> link, source |-> "Reddit",
     condition |-> Undefined, seller |-> "/u/seller"]

\* const searchQuery = author ? `${bookTitle} ${author}` : bookTitle
SearchQuery(bookTitle, author) ==
    IF author # NoAuthor THEN <<bookTitle, author>> ELSE <<bookTitle>>

\* what the request and the parsing inside a connector's try block come to:
\* an exception, or the rows pushed
Threw == [threw |-> TRUE, rows |-> <<>>]
Rows(rows) == [threw |-> FALSE, rows |-> rows]

Fulfilled(v) == [state |-> "fulfilled", value |-> v]
RejectedPromise == [state |-> "rejected", value |-> <<>>]
PendingPromise == [state |-> "pending", value |-> <<>>]

\* self.findIndex(r => r.link === link): the first position holding the link
findIndex(self, link) ==
    CHOOSE i \in 1..Len(self) :
        /\ self[i].link = link
        /\ \A j \in 1..(i - 1) : self[j].link # link

RECURSIVE FilterFirst(_, _)
\* self.filter((result, index, self) => index === self.findIndex(...)), from i on
FilterFirst(self, i) ==
    IF i > Len(self) THEN <<>>
    ELSE (IF i = findIndex(self, self[i].link) THEN <<self[i]>> ELSE <<>>)
         \o FilterFirst(self, i + 1)

RECURSIVE KeepLast(_, _)
KeepLast(self, i) ==
    IF i > Len(self) THEN <<>>
    ELSE (IF \A j \in (i + 1)..Len(self) : self[j].link # self[i].link
          THEN <<self[i]>> ELSE <<>>)
         \o KeepLast(self, i + 1)

uniqueResults_KeepLast(flatResults) == KeepLast(flatResults, 1)

uniqueResults(flatResults) == FilterFirst(flatResults, 1)

\* searchCraigslist: its try/catch turns a throw into a returned []
searchCraigslist(body) == Fulfilled(IF body.threw THEN <<>> ELSE body.rows)

\* searchReddit: its try/catch turns a throw into a returned []
searchReddit(body) == Fulfilled(IF body.threw THEN <<>> ELSE body.rows)

\* promise.catch(err => { console.error(...); return []; })
CatchToEmpty(promise) ==
    IF promise.state = "rejected" THEN Fulfilled(<<>>) ELSE promise

Unprotected(body) == IF body.threw THEN RejectedPromise ELSE Fulfilled(body.rows)

searchPromises_Unprotected(clBody, rdBody) == <<Unprotected(clBody), Unprotected(rdBody)>>

\* const searchPromises = [searchCraigslist(q).catch(...), searchReddit(q).catch(...)]
searchPromises(clBody, rdBody) ==
    <<CatchToEmpty(searchCraigslist(clBody)), CatchToEmpty(searchReddit(rdBody))>>

\* Promise.all: rejected when one promise is, else the values by position
PromiseAll(promises) ==
    IF \E i \in 1..Len(promises) : promises[i].state = "rejected"
    THEN RejectedPromise
    ELSE Fulfilled([i \in 1..Len(promises) |-> promises[i].value])

\* allResults.flat() of the two connectors' lists, by position
Flat(allResults) == allResults[1] \o allResults[2]

\* the rest of searchAllPlatforms once every promise has settled: the try block
\* pushes the unique results, the catch block leaves results empty
joinResults(promises) ==
    LET allResults == PromiseAll(promises)
    IN  IF allResults.state = "rejected" THEN <<>>
        ELSE uniqueResults(Flat(allResults.value))

\* searchAllPlatforms, given what the two connector bodies come to
searchAllPlatforms(clBody, rdBody) == joinResults(searchPromises(clBody, rdBody))

(***************************************************************************)
(* The notification pipeline.                                              *)
(***************************************************************************)
\* the message sendEmailToUser hands to transporter.sendMail at time t
EmailMessage(email, name, bookTitle, rs, t) ==
    [to |-> email, name |-> name, bookTitle |-> bookTitle, count |-> Len(rs),
     results |-> rs, sentAt |-> t]

OrNull(v) == IF v = Undefined THEN Null ELSE v

NotificationDocs_FirstOnly(userId, bookTitle, rs, firstId, t) ==
    { [id |-> firstId,
       userId |-> userId,
       bookTitle |-> bookTitle,
       title |-> rs[1].title,
       source |-> rs[1].source,
       link |-> rs[1].link,
       condition |-> IF rs[1].condition = Undefined THEN Null ELSE rs[1].condition,
       seller |-> IF rs[1].seller = Undefined THEN Null ELSE rs[1].seller,
       read |-> FALSE,
       readAt |-> Undefined,
       createdAt |-> t] }

\* the documents one saveNotifications batch sets, with fresh ids from firstId on
NotificationDocs(userId, bookTitle, rs, firstId, t) ==
    { [id |-> firstId + i - 1,
       userId |-> userId,
       bookTitle |-> bookTitle,
       title |-> rs[i].title,
       source |-> rs[i].source,
       link |-> rs[i].link,
       condition |-> OrNull(rs[i].condition),
       seller |-> OrNull(rs[i].seller),
       read |-> FALSE,
       readAt |-> Undefined,
       createdAt |-> t] : i \in 1..Len(rs) }

(***************************************************************************)
(* State.                                                                  *)
(***************************************************************************)
VARIABLES
    now,            \* the clock, in ms
    lastSearched,   \* books/<id>.lastSearched, NoTime when absent
    notifications,  \* the notifications collection
    nextId,         \* the next auto-generated notification id
    emails,         \* the messages sendMail accepted, in order
    pc,             \* where dailyBookSearch stands
    userQueue,      \* usersSnapshot.docs still to visit
    curUser,        \* userDoc
    bookQueue,      \* booksSnapshot.docs still to visit
    curBook,        \* bookDoc
    results,        \* results of the current book
    runs,           \* runs started
    failures,       \* rejected awaits so far
    searches,       \* aggregator invocations of the job so far
    mark,           \* the store as the current book found it
    fin,            \* how the last visited book ended
    aggAt,          \* per book, when the job last invoked the aggregator
    aggPrev,        \* per book, the invocation before that one
    apc,            \* where the callable request in progress stands
    req,            \* the last callable request: data and context.auth
    bodies,         \* what the two connector bodies of that request come to
    slots,          \* searchPromises of that request, by position
    order,          \* the positions of searchPromises in the order they settled
    resp,           \* what the last callable request returned or threw
    effects,        \* the outbound requests and store accesses it made
    calls,          \* callable requests received so far
    marked,         \* the ids markNotificationRead has updated
    visit,          \* per book, the run that last visited it and how the visit ended
    runEnd,         \* how the current run of dailyBookSearch stands or ended
    spc,            \* where cleanupOldNotifications stands
    oldNotifications, \* the ids of oldNotifications.docs
    sweeps,         \* runs of cleanupOldNotifications started
    cpc,            \* where the connector under test stands
    searchQuery,    \* the searchQuery it was called with
    craigslistPage, \* the .result-row elements of the Craigslist response
    redditFeed,     \* the Reddit responses, one per search term
    connOut         \* what the connector returned

jobVars == <<pc, userQueue, curUser, bookQueue, curBook, results, runs>>
storeVars == <<lastSearched, notifications, nextId, emails>>
ghostVars == <<mark, fin, aggAt, aggPrev, visit, runEnd>>
apiVars == <<apc, req, bodies, slots, order, resp, effects, calls, marked>>
sweepVars == <<spc, oldNotifications, sweeps>>
connVars == <<cpc, searchQuery, craigslistPage, redditFeed, connOut>>
vars == <<now, storeVars, jobVars, failures, searches, ghostVars, apiVars, sweepVars,
          connVars>>

NoReq == [op |-> "none", auth |-> FALSE, bookTitle |-> Undefined, author |-> NoAuthor,
          notificationId |-> 0]
NoResp == [code |-> "none", results |-> <<>>]

NoVisit == [run |-> 0, outcome |-> "none", ls0 |-> NoTime]

NoMark == [book |-> "none", at |-> NoTime, ls0 |-> NoTime, mail0 |-> 0, id0 |-> 1]
NoFin == [book |-> "none", outcome |-> "none", n |-> 0, ls0 |-> NoTime,
          start |-> NoTime, end |-> NoTime, mail0 |-> 0, mail1 |-> 0, id0 |-> 1, id1 |-> 1]

Init ==
    /\ now = 0
    /\ lastSearched = [b \in Books |-> NoTime]
    /\ notifications = {}
    /\ nextId = 1
    /\ emails = <<>>
    /\ pc = "idle"
    /\ userQueue = <<>>
    /\ curUser = "none"
    /\ bookQueue = <<>>
    /\ curBook = "none"
    /\ results = <<>>
    /\ runs = 0
    /\ failures = 0
    /\ searches = 0
    /\ mark = NoMark
    /\ fin = NoFin
    /\ aggAt = [b \in Books |-> NoTime]
    /\ aggPrev = [b \in Books |-> NoTime]
    /\ apc = "ready"
    /\ req = NoReq
    /\ bodies = <<Rows(<<>>), Rows(<<>>)>>
    /\ slots = <<Fulfilled(<<>>), Fulfilled(<<>>)>>
    /\ order = <<>>
    /\ resp = NoResp
    /\ effects = {}
    /\ calls = 0
    /\ marked = {}
    /\ visit = [b \in Books |-> NoVisit]
    /\ runEnd = "none"
    /\ spc = "idle"
    /\ oldNotifications = {}
    /\ sweeps = 0
    /\ cpc = "idle"
    /\ searchQuery = <<>>
    /\ craigslistPage = <<>>
    /\ redditFeed = <<>>
    /\ connOut = <<>>

(***************************************************************************)
(* dailyBookSearch.                                                        *)
(***************************************************************************)
\* an await may reject while the failure budget lasts
MayFail == failures < MaxFailures

\* how the visit of book b ended, with the store as it found and left it
Finished(b, outcome, n, m) ==
    [book |-> b, outcome |-> outcome, n |-> n, ls0 |-> m.ls0,
     start |-> m.at, end |-> now,
     mail0 |-> m.mail0, mail1 |-> Len(emails),
     id0 |-> m.id0, id1 |-> nextId]

\* an entry of `visit` made by the current run
Visited(outcome, ls0) == [run |-> runs, outcome |-> outcome, ls0 |-> ls0]

\* the store as a book's visit finds it
MarkOf(b) ==
    [book |-> b, at |-> now, ls0 |-> lastSearched[b], mail0 |-> Len(emails), id0 |-> nextId]

ThrottledInclusive(ls, t) == ls # NoTime /\ ls >= t - SixHoursMs

ThrottledReversed(ls, t) == ls # NoTime /\ ls < t - SixHoursMs

\* if (lastSearched && lastSearched > sixHoursAgo) continue
Throttled(ls, t) == ls # NoTime /\ ls > t - SixHoursMs

\* the connector outcomes the batch job meets
JobClBodies == {Threw, Rows(<<CraigslistResult("t1", "L1")>>)}
JobRdBodies == {Rows(<<>>), Rows(<<RedditResult("t2", "L1"), RedditResult("t2", "L2")>>)}

\* the trigger fires: the users query resolves or rejects
StartRun ==
    /\ pc = "idle"
    /\ runs < MaxRuns
    /\ runs' = runs + 1
    /\ \/ /\ userQueue' = UsersWithNotifications
          /\ pc' = "user"
          /\ runEnd' = "running"
          /\ UNCHANGED failures
       \/ /\ MayFail
          /\ failures' = failures + 1
          /\ pc' = "done"
          /\ runEnd' = "usersFetchFailed"
          /\ UNCHANGED userQueue
    /\ UNCHANGED <<now, storeVars, curUser, bookQueue, curBook, results,
                   mark, fin, aggAt, aggPrev, visit>>
    /\ UNCHANGED <<searches, apiVars, sweepVars, connVars>>

NextUser_SkipUser ==
    /\ pc = "user"
    /\ \/ /\ userQueue = <<>>
          /\ pc' = "done"
          /\ runEnd' = "completed"
          /\ UNCHANGED <<userQueue, curUser, bookQueue, failures>>
       \/ /\ userQueue # <<>>
          /\ curUser' = Head(userQueue)
          /\ userQueue' = Tail(userQueue)
          /\ \/ /\ bookQueue' = BooksOfUser(Head(userQueue))
                /\ pc' = "book"
                /\ UNCHANGED <<failures, runEnd>>
             \/ /\ MayFail
                /\ failures' = failures + 1
                /\ pc' = "user"
                /\ UNCHANGED <<bookQueue, runEnd>>
    /\ UNCHANGED <<now, storeVars, curBook, results, runs,
                   mark, fin, aggAt, aggPrev, visit>>
    /\ UNCHANGED <<searches, apiVars, sweepVars, connVars>>

\* for (const userDoc of usersSnapshot.docs): the books query resolves or rejects
NextUser ==
    /\ pc = "user"
    /\ \/ /\ userQueue = <<>>
          /\ pc' = "done"
          /\ runEnd' = "completed"
          /\ UNCHANGED <<userQueue, curUser, bookQueue, failures>>
       \/ /\ userQueue # <<>>
          /\ curUser' = Head(userQueue)
          /\ userQueue' = Tail(userQueue)
          /\ \/ /\ bookQueue' = BooksOfUser(Head(userQueue))
                /\ pc' = "book"
                /\ UNCHANGED <<failures, runEnd>>
             \/ /\ MayFail
                /\ failures' = failures + 1
                /\ pc' = "done"
                /\ runEnd' = "booksFetchFailed"
                /\ UNCHANGED bookQueue
    /\ UNCHANGED <<now, storeVars, curBook, results, runs,
                   mark, fin, aggAt, aggPrev, visit>>
    /\ UNCHANGED <<searches, apiVars, sweepVars, connVars>>

NextBook_NoAwait ==
    /\ pc \in {"book", "search"}
    /\ \/ /\ bookQueue = <<>>
          /\ pc' = "sleepUser"
          /\ UNCHANGED <<bookQueue, curBook, mark, fin, visit>>
       \/ /\ bookQueue # <<>>
          /\ curBook' = Head(bookQueue)
          /\ bookQueue' = Tail(bookQueue)
          /\ mark' = MarkOf(Head(bookQueue))
          /\ visit' = [visit EXCEPT ![Head(bookQueue)] =
                          Visited(IF Throttled(lastSearched[Head(bookQueue)], now)
                                  THEN "skipped" ELSE "started",
                                  lastSearched[Head(bookQueue)])]
          /\ IF Throttled(lastSearched[Head(bookQueue)], now)
             THEN /\ pc' = "book"
                  /\ fin' = [book |-> Head(bookQueue), outcome |-> "skipped", n |-> 0,
                             ls0 |-> lastSearched[Head(bookQueue)],
                             start |-> now, end |-> now,
                             mail0 |-> Len(emails), mail1 |-> Len(emails),
                             id0 |-> nextId, id1 |-> nextId]
             ELSE /\ searches < MaxSearches
                  /\ pc' = "search"
                  /\ UNCHANGED fin
    /\ UNCHANGED <<now, storeVars, userQueue, curUser, results, runs, failures,
                   aggAt, aggPrev, runEnd>>
    /\ UNCHANGED <<searches, apiVars, sweepVars, connVars>>

\* for (const bookDoc of booksSnapshot.docs): the throttle
NextBook ==
    /\ pc = "book"
    /\ \/ /\ bookQueue = <<>>
          /\ pc' = "sleepUser"
          /\ UNCHANGED <<bookQueue, curBook, mark, fin, visit>>
       \/ /\ bookQueue # <<>>
          /\ curBook' = Head(bookQueue)
          /\ bookQueue' = Tail(bookQueue)
          /\ mark' = MarkOf(Head(bookQueue))
          /\ visit' = [visit EXCEPT ![Head(bookQueue)] =
                          Visited(IF Throttled(lastSearched[Head(bookQueue)], now)
                                  THEN "skipped" ELSE "started",
                                  lastSearched[Head(bookQueue)])]
          /\ IF Throttled(lastSearched[Head(bookQueue)], now)
             THEN /\ pc' = "book"
                  /\ fin' = [book |-> Head(bookQueue), outcome |-> "skipped", n |-> 0,
                             ls0 |-> lastSearched[Head(bookQueue)],
                             start |-> now, end |-> now,
                             mail0 |-> Len(emails), mail1 |-> Len(emails),
                             id0 |-> nextId, id1 |-> nextId]
             ELSE /\ searches < MaxSearches
                  /\ pc' = "search"
                  /\ UNCHANGED fin
    /\ UNCHANGED <<now, storeVars, userQueue, curUser, results, runs, failures,
                   aggAt, aggPrev, runEnd>>
    /\ UNCHANGED <<searches, apiVars, sweepVars, connVars>>

Search_AlwaysEmail ==
    /\ pc = "search"
    /\ \E clBody \in JobClBodies, rdBody \in JobRdBodies :
          results' = searchAllPlatforms(clBody, rdBody)
    /\ aggPrev' = [aggPrev EXCEPT ![curBook] = aggAt[curBook]]
    /\ aggAt' = [aggAt EXCEPT ![curBook] = now]
    /\ now' = now + SearchMs
    /\ searches' = searches + 1
    /\ pc' = "email"
    /\ UNCHANGED <<storeVars, userQueue, curUser, bookQueue, curBook, runs, failures,
                   mark, fin, visit, runEnd, apiVars, sweepVars, connVars>>

\* const results = await searchAllPlatforms(book.title, book.author)
Search ==
    /\ pc = "search"
    /\ \E clBody \in JobClBodies, rdBody \in JobRdBodies :
          results' = searchAllPlatforms(clBody, rdBody)
    /\ aggPrev' = [aggPrev EXCEPT ![curBook] = aggAt[curBook]]
    /\ aggAt' = [aggAt EXCEPT ![curBook] = now]
    /\ now' = now + SearchMs
    /\ searches' = searches + 1
    /\ pc' = IF Len(results') > 0 THEN "email" ELSE "update"
    /\ UNCHANGED <<storeVars, userQueue, curUser, bookQueue, curBook, runs, failures,
                   mark, fin, visit, runEnd, apiVars, sweepVars, connVars>>

SendEmail_Abort ==
    /\ pc = "email"
    /\ \/ /\ emails' = Append(emails, EmailMessage(UserDoc(curUser).email,
                                  UserDoc(curUser).displayName,
                                  BookDoc(curBook).title, results, now))
          /\ pc' = "save"
          /\ UNCHANGED <<failures, fin, visit>>
       \/ /\ MayFail
          /\ failures' = failures + 1
          /\ pc' = "done"
          /\ UNCHANGED emails
          /\ fin' = Finished(curBook, "emailFailed", Len(results), mark)
          /\ visit' = [visit EXCEPT ![curBook] = Visited("emailFailed", mark.ls0)]
    /\ UNCHANGED <<now, lastSearched, notifications, nextId, userQueue, curUser,
                   bookQueue, curBook, results, runs, mark, aggAt, aggPrev, runEnd>>
    /\ UNCHANGED <<searches, apiVars, sweepVars, connVars>>

\* await sendEmailToUser(...): sendMail resolves, or rejects and the error is rethrown
SendEmail ==
    /\ pc = "email"
    /\ \/ /\ emails' = Append(emails, EmailMessage(UserDoc(curUser).email,
                                  UserDoc(curUser).displayName,
                                  BookDoc(curBook).title, results, now))
          /\ pc' = "save"
          /\ UNCHANGED <<failures, fin, visit>>
       \/ /\ MayFail
          /\ failures' = failures + 1
          /\ pc' = "book"
          /\ UNCHANGED emails
          /\ fin' = Finished(curBook, "emailFailed", Len(results), mark)
          /\ visit' = [visit EXCEPT ![curBook] = Visited("emailFailed", mark.ls0)]
    /\ UNCHANGED <<now, lastSearched, notifications, nextId, userQueue, curUser,
                   bookQueue, curBook, results, runs, mark, aggAt, aggPrev, runEnd>>
    /\ UNCHANGED <<searches, apiVars, sweepVars, connVars>>

SaveNotifications_Advance ==
    /\ pc = "save"
    /\ \/ /\ notifications' = notifications \cup
                 NotificationDocs(curUser, BookDoc(curBook).title, results, nextId, now)
          /\ nextId' = nextId + Len(results)
          /\ pc' = "update"
          /\ UNCHANGED <<failures, fin, visit, lastSearched>>
       \/ /\ MayFail
          /\ failures' = failures + 1
          /\ pc' = "book"
          /\ UNCHANGED <<notifications, nextId>>
          /\ lastSearched' = [lastSearched EXCEPT ![curBook] = now]
          /\ fin' = Finished(curBook, "saveFailed", Len(results), mark)
          /\ visit' = [visit EXCEPT ![curBook] = Visited("saveFailed", mark.ls0)]
    /\ UNCHANGED <<now, emails, userQueue, curUser,
                   bookQueue, curBook, results, runs, mark, aggAt, aggPrev, runEnd>>
    /\ UNCHANGED <<searches, apiVars, sweepVars, connVars>>

\* await saveNotifications(...): the batch commits whole, or rejects whole
SaveNotifications ==
    /\ pc = "save"
    /\ \/ /\ notifications' = notifications \cup
                 NotificationDocs(curUser, BookDoc(curBook).title, results, nextId, now)
          /\ nextId' = nextId + Len(results)
          /\ pc' = "update"
          /\ UNCHANGED <<failures, fin, visit>>
       \/ /\ MayFail
          /\ failures' = failures + 1
          /\ pc' = "book"
          /\ UNCHANGED <<notifications, nextId>>
          /\ fin' = Finished(curBook, "saveFailed", Len(results), mark)
          /\ visit' = [visit EXCEPT ![curBook] = Visited("saveFailed", mark.ls0)]
    /\ UNCHANGED <<now, lastSearched, emails, userQueue, curUser,
                   bookQueue, curBook, results, runs, mark, aggAt, aggPrev, runEnd>>
    /\ UNCHANGED <<searches, apiVars, sweepVars, connVars>>

UpdateLastSearched_Never ==
    /\ pc = "update"
    /\ pc' = "sleepBook"
    /\ fin' = Finished(curBook, "ok", Len(results), mark)
    /\ visit' = [visit EXCEPT ![curBook] = Visited("ok", mark.ls0)]
    /\ UNCHANGED <<now, storeVars, userQueue, curUser, bookQueue, curBook, results,
                   runs, failures, mark, aggAt, aggPrev, runEnd>>
    /\ UNCHANGED <<searches, apiVars, sweepVars, connVars>>

\* await bookDoc.ref.update({ lastSearched: new Date().toISOString() })
UpdateLastSearched ==
    /\ pc = "update"
    /\ \/ /\ lastSearched' = [lastSearched EXCEPT ![curBook] = now]
          /\ pc' = "sleepBook"
          /\ fin' = Finished(curBook, "ok", Len(results), mark)
          /\ visit' = [visit EXCEPT ![curBook] = Visited("ok", mark.ls0)]
          /\ UNCHANGED failures
       \/ /\ MayFail
          /\ failures' = failures + 1
          /\ pc' = "book"
          /\ UNCHANGED lastSearched
          /\ fin' = Finished(curBook, "updateFailed", Len(results), mark)
          /\ visit' = [visit EXCEPT ![curBook] = Visited("updateFailed", mark.ls0)]
    /\ UNCHANGED <<now, notifications, nextId, emails, userQueue, curUser,
                   bookQueue, curBook, results, runs, mark, aggAt, aggPrev, runEnd>>
    /\ UNCHANGED <<searches, apiVars, sweepVars, connVars>>

\* await new Promise(resolve => setTimeout(resolve, 2000))
SleepBook ==
    /\ pc = "sleepBook"
    /\ now' = now + BookDelayMs
    /\ pc' = "book"
    /\ UNCHANGED <<storeVars, userQueue, curUser, bookQueue, curBook, results, runs,
                   failures, ghostVars>>
    /\ UNCHANGED <<searches, apiVars, sweepVars, connVars>>

\* await new Promise(resolve => setTimeout(resolve, 1000))
SleepUser ==
    /\ pc = "sleepUser"
    /\ now' = now + UserDelayMs
    /\ pc' = "user"
    /\ UNCHANGED <<storeVars, userQueue, curUser, bookQueue, curBook, results, runs,
                   failures, ghostVars>>
    /\ UNCHANGED <<searches, apiVars, sweepVars, connVars>>

\* the instants at which the next trigger may fire: right away, six hours on, and
\* the instant each book's throttle ends
WakeTimes ==
    {now + 1, now + SixHoursMs}
    \cup {lastSearched[b] + SixHoursMs : b \in {x \in Books : lastSearched[x] # NoTime}}

\* the handler has returned; time passes until the trigger fires again
Wait ==
    /\ pc = "done"
    /\ runs < MaxRuns
    /\ \E t \in WakeTimes : t > now /\ now' = t
    /\ pc' = "idle"
    /\ UNCHANGED <<storeVars, userQueue, curUser, bookQueue, curBook, results, runs,
                   failures, ghostVars>>
    /\ UNCHANGED <<searches, apiVars, sweepVars, connVars>>

Next ==
    \/ StartRun
    \/ NextUser
    \/ NextBook
    \/ Search
    \/ SendEmail
    \/ SaveNotifications
    \/ UpdateLastSearched
    \/ SleepBook
    \/ SleepUser
    \/ Wait

Spec == Init /\ [][Next]_vars

(***************************************************************************)
(* The callable operations searchBook and markNotificationRead.            *)
(***************************************************************************)
\* the sequences over S of length at most n
BoundedSeq(S, n) == UNION {[1..k -> S] : k \in 0..n}

DistinctLinks(rows) ==
    \A i, j \in 1..Len(rows) : i # j => rows[i].link # rows[j].link

\* what the Craigslist body of a request may come to: rows may repeat a link
ApiClBodies ==
    {Threw} \cup
    {Rows(rows) : rows \in
        BoundedSeq({CraigslistResult(t, l) : t \in Titles, l \in Links}, MaxLen)}

\* what the Reddit body of a request may come to: searchReddit returns unique links
ApiRdBodies ==
    {Threw} \cup
    {Rows(rows) : rows \in
        {r \in BoundedSeq({RedditResult("t2", l) : l \in Links}, MaxLen) : DistinctLinks(r)}}

\* !bookTitle
Falsy(v) == v \in {Undefined, ""}

SearchBookRequests ==
    [op : {"searchBook"}, auth : BOOLEAN, bookTitle : {Undefined, "", "Dune"},
     author : {NoAuthor, "Herbert"}, notificationId : {0}]

MarkReadRequests ==
    [op : {"markNotificationRead"}, auth : BOOLEAN, bookTitle : {Undefined},
     author : {NoAuthor}, notificationId : 1..nextId]

searchBookGuard_NoTitleCheck(r) == IF ~r.auth THEN "unauthenticated" ELSE "ok"

\* the two checks that open searchBook
searchBookGuard(r) ==
    IF ~r.auth THEN "unauthenticated"
    ELSE IF Falsy(r.bookTitle) THEN "invalid-argument"
    ELSE "ok"

\* searchBook is called: it throws at a check, or invokes searchAllPlatforms, whose
\* two connectors send their first request; what each connector comes to is known
\* when it settles
SearchBook ==
    /\ apc = "ready"
    /\ calls < MaxCalls
    /\ calls' = calls + 1
    /\ \E r \in SearchBookRequests :
          /\ req' = r
          /\ IF searchBookGuard(r) # "ok"
             THEN /\ resp' = [code |-> searchBookGuard(r), results |-> <<>>]
                  /\ effects' = {}
                  /\ apc' = "ready"
                  /\ UNCHANGED <<bodies, slots, order>>
             ELSE /\ bodies' = <<Rows(<<>>), Rows(<<>>)>>
                  /\ slots' = <<PendingPromise, PendingPromise>>
                  /\ order' = <<>>
                  /\ resp' = NoResp
                  /\ effects' = {"GET craigslist", "GET reddit"}
                  /\ apc' = "fanout"
    /\ UNCHANGED <<now, storeVars, jobVars, failures, searches, ghostVars, marked,
                   sweepVars, connVars>>

\* the connector at position i of searchPromises comes to `body`, and its promise
\* settles
Settle(i, body) ==
    /\ apc = "fanout"
    /\ slots[i].state = "pending"
    /\ bodies' = [bodies EXCEPT ![i] = body]
    /\ slots' = [slots EXCEPT ![i] = searchPromises(bodies'[1], bodies'[2])[i]]
    /\ order' = Append(order, i)
    /\ UNCHANGED <<now, storeVars, jobVars, failures, searches, ghostVars,
                   apc, req, resp, effects, calls, marked, sweepVars, connVars>>

SettleCraigslist == \E body \in ApiClBodies : Settle(1, body)

SettleReddit == \E body \in ApiRdBodies : Settle(2, body)

SearchBookReturn_Persist ==
    /\ apc = "fanout"
    /\ \A i \in 1..2 : slots[i].state # "pending"
    /\ resp' = [code |-> "ok", results |-> joinResults(slots)]
    /\ apc' = "ready"
    /\ notifications' = notifications \cup
           NotificationDocs("u1", req.bookTitle, joinResults(slots), nextId, now)
    /\ nextId' = nextId + Len(joinResults(slots))
    /\ UNCHANGED <<now, lastSearched, emails, jobVars, failures, searches, ghostVars,
                   req, bodies, slots, order, effects, calls, marked, sweepVars,
                   connVars>>

\* Promise.all has resolved: searchAllPlatforms returns and searchBook returns
\* { results, searchedAt }
SearchBookReturn ==
    /\ apc = "fanout"
    /\ \A i \in 1..2 : slots[i].state # "pending"
    /\ resp' = [code |-> "ok", results |-> joinResults(slots)]
    /\ apc' = "ready"
    /\ UNCHANGED <<now, storeVars, jobVars, failures, searches, ghostVars,
                   req, bodies, slots, order, effects, calls, marked, sweepVars,
                   connVars>>

MarkNotificationRead_All ==
    /\ apc = "ready"
    /\ calls < MaxCalls
    /\ calls' = calls + 1
    /\ \E r \in MarkReadRequests :
          /\ req' = r
          /\ IF ~r.auth
             THEN /\ resp' = [code |-> "unauthenticated", results |-> <<>>]
                  /\ effects' = {}
                  /\ UNCHANGED <<notifications, marked>>
             ELSE /\ effects' = {"update notifications"}
                  /\ IF \E d \in notifications : d.id = r.notificationId
                     THEN /\ notifications' =
                                {[d EXCEPT !.read = TRUE, !.readAt = now] :
                                     d \in notifications}
                          /\ marked' = marked \cup {r.notificationId}
                          /\ resp' = [code |-> "ok", results |-> <<>>]
                     ELSE /\ UNCHANGED <<notifications, marked>>
                          /\ resp' = [code |-> "internal", results |-> <<>>]
    /\ UNCHANGED <<now, lastSearched, nextId, emails, jobVars, failures, searches,
                   ghostVars, apc, bodies, slots, order, sweepVars, connVars>>

\* markNotificationRead: update() of a missing document rejects
MarkNotificationRead ==
    /\ apc = "ready"
    /\ calls < MaxCalls
    /\ calls' = calls + 1
    /\ \E r \in MarkReadRequests :
          /\ req' = r
          /\ IF ~r.auth
             THEN /\ resp' = [code |-> "unauthenticated", results |-> <<>>]
                  /\ effects' = {}
                  /\ UNCHANGED <<notifications, marked>>
             ELSE /\ effects' = {"update notifications"}
                  /\ IF \E d \in notifications : d.id = r.notificationId
                     THEN /\ notifications' =
                                {IF d.id = r.notificationId
                                 THEN [d EXCEPT !.read = TRUE, !.readAt = now]
                                 ELSE d : d \in notifications}
                          /\ marked' = marked \cup {r.notificationId}
                          /\ resp' = [code |-> "ok", results |-> <<>>]
                     ELSE /\ UNCHANGED <<notifications, marked>>
                          /\ resp' = [code |-> "internal", results |-> <<>>]
    /\ UNCHANGED <<now, lastSearched, nextId, emails, jobVars, failures, searches,
                   ghostVars, apc, bodies, slots, order, sweepVars, connVars>>

\* the store a callable request may find: empty, or as the batch job leaves it after
\* it has notified u1 of two listings for b1
SeedResults == <<CraigslistResult("t1", "L1"), RedditResult("t2", "L2")>>

InitApi ==
    /\ pc = "idle"
    /\ userQueue = <<>>
    /\ curUser = "none"
    /\ bookQueue = <<>>
    /\ curBook = "none"
    /\ results = <<>>
    /\ runs = 0
    /\ failures = 0
    /\ searches = 0
    /\ mark = NoMark
    /\ fin = NoFin
    /\ aggAt = [b \in Books |-> NoTime]
    /\ aggPrev = [b \in Books |-> NoTime]
    /\ apc = "ready"
    /\ req = NoReq
    /\ bodies = <<Rows(<<>>), Rows(<<>>)>>
    /\ slots = <<Fulfilled(<<>>), Fulfilled(<<>>)>>
    /\ order = <<>>
    /\ resp = NoResp
    /\ effects = {}
    /\ calls = 0
    /\ marked = {}
    /\ visit = [b \in Books |-> NoVisit]
    /\ runEnd = "none"
    /\ spc = "idle"
    /\ oldNotifications = {}
    /\ sweeps = 0
    /\ cpc = "idle"
    /\ searchQuery = <<>>
    /\ craigslistPage = <<>>
    /\ redditFeed = <<>>
    /\ connOut = <<>>
    /\ \/ /\ now = 0
          /\ lastSearched = [b \in Books |-> NoTime]
          /\ notifications = {}
          /\ nextId = 1
          /\ emails = <<>>
       \/ /\ now = SearchMs + BookDelayMs
          /\ lastSearched = [b \in Books |-> IF b = "b1" THEN SearchMs ELSE NoTime]
          /\ notifications =
                 NotificationDocs("u1", BookDoc("b1").title, SeedResults, 1, SearchMs)
          /\ nextId = 1 + Len(SeedResults)
          /\ emails = <<EmailMessage(UserDoc("u1").email, UserDoc("u1").displayName,
                                     BookDoc("b1").title, SeedResults, SearchMs)>>

NextApi ==
    \/ SearchBook
    \/ SettleCraigslist
    \/ SettleReddit
    \/ SearchBookReturn
    \/ MarkNotificationRead

SpecApi == InitApi /\ [][NextApi]_vars

(***************************************************************************)
(* The weekly retention sweep cleanupOldNotifications.                     *)
(***************************************************************************)
\* schedule('0 2 * * 0'): once a week
WeekMs == 7 * DayMs

\* date.setDate(date.getDate() - n): the instant n days before t, stepping back one
\* day at a time (30 days of milliseconds exceed 32 bits)
RECURSIVE DaysAgo(_, _)
DaysAgo(t, n) == IF n = 0 THEN t ELSE DaysAgo(t - DayMs, n - 1)

\* where('createdAt', '<', thirtyDaysAgo)
Expired(docs, t) ==
    LET thirtyDaysAgo == DaysAgo(t, RetentionDays)
    IN  {d \in docs : d.createdAt < thirtyDaysAgo}

\* the order in which a query with an inequality on createdAt returns documents:
\* by createdAt, then by document id
Before(d, e) ==
    \/ d.createdAt < e.createdAt
    \/ d.createdAt = e.createdAt /\ d.id < e.id

Limit_All(docs, n) == docs

\* .limit(n): the first n documents in query order
Limit(docs, n) ==
    IF Cardinality(docs) <= n
    THEN docs
    ELSE {d \in docs : Cardinality({e \in docs : Before(e, d)}) < n}

\* the trigger fires: the query resolves (and an empty snapshot ends the handler), or
\* rejects and the error is caught
CleanupQuery ==
    /\ spc = "idle"
    /\ sweeps < MaxSweeps
    /\ sweeps' = sweeps + 1
    /\ \/ /\ oldNotifications' =
                {d.id : d \in Limit(Expired(notifications, now), CleanupLimit)}
          /\ spc' = IF oldNotifications' = {} THEN "done" ELSE "commit"
          /\ UNCHANGED failures
       \/ /\ MayFail
          /\ failures' = failures + 1
          /\ oldNotifications' = {}
          /\ spc' = "done"
    /\ UNCHANGED <<now, storeVars, jobVars, searches, ghostVars, apiVars, connVars>>

\* await batch.commit(): every document of the snapshot is deleted, or the commit
\* rejects, nothing is deleted and the error is caught
CleanupCommit ==
    /\ spc = "commit"
    /\ spc' = "done"
    /\ \/ /\ notifications' = {d \in notifications : d.id \notin oldNotifications}
          /\ UNCHANGED failures
       \/ /\ MayFail
          /\ failures' = failures + 1
          /\ UNCHANGED notifications
    /\ UNCHANGED <<now, lastSearched, nextId, emails, jobVars, searches, ghostVars,
                   apiVars, oldNotifications, sweeps, connVars>>

\* the handler has returned; a week passes until the trigger fires again
CleanupWait ==
    /\ spc = "done"
    /\ sweeps < MaxSweeps
    /\ now' = now + WeekMs
    /\ spc' = "idle"
    /\ UNCHANGED <<storeVars, jobVars, failures, searches, ghostVars, apiVars,
                   oldNotifications, sweeps, connVars>>

\* the notification the batch job stored as document i at time t
StoredDoc(i, t) ==
    CHOOSE d \in NotificationDocs("u1", BookDoc("b1").title,
                                  <<CraigslistResult("t1", "L1")>>, i, t) : TRUE

\* how many notifications older than 30 days, and how many younger ones, the first
\* sweep finds
OldCounts == {0, 1, CleanupLimit - 1, CleanupLimit, CleanupLimit + 1, CleanupLimit + 100}
YoungCounts == 0..MaxYoung

\* the instant of the first sweep on the model's clock, whose origin lies 24 days
\* after the deployment
FirstSweepAt == 6 * DayMs

\* the store of a deployment that has run for a month: nOld notifications written one
\* millisecond apart in its first second, then nYoung ones, the first of them exactly
\* 30 days before the first sweep and the others a day apart
InitSweep ==
    /\ pc = "idle"
    /\ userQueue = <<>>
    /\ curUser = "none"
    /\ bookQueue = <<>>
    /\ curBook = "none"
    /\ results = <<>>
    /\ runs = 0
    /\ failures = 0
    /\ searches = 0
    /\ mark = NoMark
    /\ fin = NoFin
    /\ aggAt = [b \in Books |-> NoTime]
    /\ aggPrev = [b \in Books |-> NoTime]
    /\ apc = "ready"
    /\ req = NoReq
    /\ bodies = <<Rows(<<>>), Rows(<<>>)>>
    /\ slots = <<Fulfilled(<<>>), Fulfilled(<<>>)>>
    /\ order = <<>>
    /\ resp = NoResp
    /\ effects = {}
    /\ calls = 0
    /\ marked = {}
    /\ visit = [b \in Books |-> NoVisit]
    /\ runEnd = "none"
    /\ spc = "idle"
    /\ oldNotifications = {}
    /\ sweeps = 0
    /\ cpc = "idle"
    /\ searchQuery = <<>>
    /\ craigslistPage = <<>>
    /\ redditFeed = <<>>
    /\ connOut = <<>>
    /\ now = FirstSweepAt
    /\ lastSearched = [b \in Books |-> NoTime]
    /\ emails = <<>>
    /\ \E nOld \in OldCounts, nYoung \in YoungCounts :
          /\ notifications =
                 {StoredDoc(i, DaysAgo(FirstSweepAt, RetentionDays) - 1000 + i) :
                      i \in 1..nOld} \cup
                 {StoredDoc(nOld + j,
                            DaysAgo(FirstSweepAt, RetentionDays) + (j - 1) * DayMs) :
                      j \in 1..nYoung}
          /\ nextId = nOld + nYoung + 1

NextSweep ==
    \/ CleanupQuery
    \/ CleanupCommit
    \/ CleanupWait

SpecSweep == InitSweep /\ [][NextSweep]_vars

(***************************************************************************)
(* All operations on one store: a run of dailyBookSearch, callable         *)
(* requests and a retention sweep, interleaved at their awaits.            *)
(***************************************************************************)
\* the store of a deployment that has run for a month: u1 has been notified of a
\* listing for b1 twice, more than 30 days and exactly 30 days before the first
\* sweep, and an hour before it a run has found nothing for b2 and b3
InitStore ==
    /\ pc = "idle"
    /\ userQueue = <<>>
    /\ curUser = "none"
    /\ bookQueue = <<>>
    /\ curBook = "none"
    /\ results = <<>>
    /\ runs = 0
    /\ failures = 0
    /\ searches = 0
    /\ mark = NoMark
    /\ fin = NoFin
    /\ aggAt = [b \in Books |-> NoTime]
    /\ aggPrev = [b \in Books |-> NoTime]
    /\ apc = "ready"
    /\ req = NoReq
    /\ bodies = <<Rows(<<>>), Rows(<<>>)>>
    /\ slots = <<Fulfilled(<<>>), Fulfilled(<<>>)>>
    /\ order = <<>>
    /\ resp = NoResp
    /\ effects = {}
    /\ calls = 0
    /\ marked = {}
    /\ visit = [b \in Books |-> NoVisit]
    /\ runEnd = "none"
    /\ spc = "idle"
    /\ oldNotifications = {}
    /\ sweeps = 0
    /\ cpc = "idle"
    /\ searchQuery = <<>>
    /\ craigslistPage = <<>>
    /\ redditFeed = <<>>
    /\ connOut = <<>>
    /\ now = FirstSweepAt
    /\ LET t1 == DaysAgo(FirstSweepAt, RetentionDays) - 1
           t2 == DaysAgo(FirstSweepAt, RetentionDays)
           Mail(t) == EmailMessage(UserDoc("u1").email, UserDoc("u1").displayName,
                                   BookDoc("b1").title,
                                   <<CraigslistResult("t1", "L1")>>, t)
       IN  /\ notifications = {StoredDoc(1, t1), StoredDoc(2, t2)}
           /\ nextId = 3
           /\ emails = <<Mail(t1), Mail(t2)>>
           /\ lastSearched = [b \in Books |->
                                 CASE b = "b1" -> t2
                                   [] b \in {"b2", "b3"} -> FirstSweepAt - HourMs
                                   [] OTHER -> NoTime]

NextStore ==
    \/ StartRun
    \/ NextUser
    \/ NextBook
    \/ Search
    \/ SendEmail
    \/ SaveNotifications
    \/ UpdateLastSearched
    \/ SleepBook
    \/ SleepUser
    \/ SearchBook
    \/ \E body \in JobClBodies : Settle(1, body)
    \/ \E body \in JobRdBodies : Settle(2, body)
    \/ SearchBookReturn
    \/ MarkNotificationRead
    \/ CleanupQuery
    \/ CleanupCommit

SpecStore == InitStore /\ [][NextStore]_vars

(***************************************************************************)
(* Properties of dailyBookSearch, checked under Spec.                      *)
(***************************************************************************)
\* the book the loop is about to visit
NextInLine == Head(bookQueue)

\* C1: when the loop reaches a book, the book goes to the aggregator if and only
\* if its lastSearched is absent or at or before now - 6h; a book whose
\* lastSearched is strictly within the last 6 hours is skipped with no aggregator
\* invocation, no email, no notification and lastSearched as it was; and the
\* aggregator is invoked for no book but the one that passed this test.
C1_Throttle ==
    /\ [][(pc = "book" /\ bookQueue # <<>>) =>
            IF lastSearched[NextInLine] = NoTime
               \/ lastSearched[NextInLine] <= now - SixHoursMs
            THEN pc' = "search" /\ curBook' = NextInLine
            ELSE /\ pc' = "book"
                 /\ UNCHANGED <<lastSearched, notifications, emails, aggAt, searches>>]_vars
    /\ [][aggAt' # aggAt =>
            /\ pc = "search"
            /\ aggAt' = [aggAt EXCEPT ![curBook] = now]
            /\ mark.book = curBook
            /\ (mark.ls0 = NoTime \/ mark.ls0 <= mark.at - SixHoursMs)]_vars
    /\ [](fin.outcome = "skipped" =>
            /\ fin.ls0 > fin.start - SixHoursMs
            /\ lastSearched[fin.book] = fin.ls0)

\* a book is skipped in a run in which another book, last searched exactly six
\* hours before, went to the aggregator
C1_Witness ==
    /\ fin.outcome = "skipped"
    /\ aggAt[fin.book] # NoTime
    /\ \E b \in Books :
          /\ lastSearched[b] # NoTime
          /\ aggAt[b] = lastSearched[b] + SixHoursMs

\* C3 as claimed: once a book that passed the throttle has been processed, with
\* success or with a caught failure of the email send or the notification write,
\* its lastSearched is the timestamp of that processing.
C3_UnconditionalUpdate ==
    fin.outcome \in {"ok", "emailFailed", "saveFailed"} =>
        lastSearched[fin.book] = fin.end

\* C3 as amended: lastSearched is set to the current timestamp exactly when every
\* step of the book's processing succeeded (zero results included); when the email
\* send, the notification write or the update itself fails, the error is caught and
\* lastSearched keeps the value it had.
C3_UpdateOnSuccessOnly ==
    /\ fin.outcome = "ok" =>
          /\ lastSearched[fin.book] = fin.end
          /\ fin.end > fin.start
    /\ fin.outcome \in {"emailFailed", "saveFailed", "updateFailed"} =>
          /\ lastSearched[fin.book] = fin.ls0
          /\ lastSearched[fin.book] < fin.start

\* a book's processing has succeeded while an earlier book of the run, searched
\* too, was left without lastSearched by a caught failure
C3_Witness ==
    /\ fin.outcome = "ok"
    /\ fin.n > 0
    /\ \E b \in Books \ {fin.book} :
          /\ aggAt[b] # NoTime
          /\ lastSearched[b] = NoTime

\* the emails that told of link l for book b, and the stored notifications of it
EmailsOf(b, l) ==
    {i \in 1..Len(emails) :
        /\ emails[i].bookTitle = BookDoc(b).title
        /\ \E k \in 1..Len(emails[i].results) : emails[i].results[k].link = l}
NotificationsOf(b, l) ==
    {d \in notifications : d.bookTitle = BookDoc(b).title /\ d.link = l}

\* the emails and notifications of link l for book b that came after the last
\* advance of the book's lastSearched: those of the match not yet acknowledged
Unacknowledged(b, t) == lastSearched[b] = NoTime \/ t > lastSearched[b]
PendingEmailsOf(b, l) == {i \in EmailsOf(b, l) : Unacknowledged(b, emails[i].sentAt)}
PendingNotificationsOf(b, l) ==
    {d \in NotificationsOf(b, l) : Unacknowledged(b, d.createdAt)}

\* C4 as claimed: the pipeline is idempotent across runs: a listing matched for a
\* book is emailed at most once and stored as a notification at most once until
\* the book's lastSearched advances, also when a step of the processing failed and
\* a later run processes the book again.
C4_Idempotent ==
    \A b \in Books, l \in Links :
        /\ Cardinality(PendingEmailsOf(b, l)) <= 1
        /\ Cardinality(PendingNotificationsOf(b, l)) <= 1

\* C5: when the aggregator returned no result for a book that passed the throttle,
\* the job has sent no email and stored no notification for it, and the update it
\* then issues, once accepted, leaves lastSearched at the current timestamp.
C5_ZeroResults ==
    (fin.n = 0 /\ fin.outcome \in {"ok", "updateFailed"}) =>
        /\ fin.mail1 = fin.mail0
        /\ fin.id1 = fin.id0
        /\ \A d \in notifications : d.id < fin.id0 \/ d.id >= fin.id1
        /\ fin.outcome = "ok" =>
              /\ lastSearched[fin.book] = fin.end
              /\ lastSearched[fin.book] > fin.start
        /\ pc = "sleepBook" => (results = <<>> /\ Len(emails) = fin.mail0)

\* a book with no result has been processed after a book with results was
C5_Witness ==
    /\ pc = "sleepBook"
    /\ fin.n = 0
    /\ fin.outcome = "ok"
    /\ emails # <<>>
    /\ lastSearched[fin.book] = now

\* the notifications stored during the last finished visit
StoredInVisit == {d \in notifications : d.id >= fin.id0 /\ d.id < fin.id1}

\* C6: when the aggregator returned n > 0 results and no step failed, the job has
\* sent exactly one email, to the book's user, holding all n results, and stored
\* exactly n notifications for the book, one per result.
C6_OneEmailNRecords ==
    (fin.outcome = "ok" /\ fin.n > 0) =>
        /\ fin.mail1 = fin.mail0 + 1
        /\ emails[fin.mail1].to = UserDoc(BookDoc(fin.book).userId).email
        /\ emails[fin.mail1].bookTitle = BookDoc(fin.book).title
        /\ Len(emails[fin.mail1].results) = fin.n
        /\ fin.id1 = fin.id0 + fin.n
        /\ Cardinality(StoredInVisit) = fin.n
        /\ \A k \in 1..fin.n :
              Cardinality({d \in StoredInVisit :
                  /\ d.link = emails[fin.mail1].results[k].link
                  /\ d.title = emails[fin.mail1].results[k].title
                  /\ d.source = emails[fin.mail1].results[k].source
                  /\ d.userId = BookDoc(fin.book).userId
                  /\ d.bookTitle = BookDoc(fin.book).title
                  /\ d.read = FALSE}) = 1
        /\ pc = "sleepBook" =>
              /\ emails[fin.mail1].results = results
              /\ Len(emails) = fin.mail1

\* two results have just been emailed and stored for a book
C6_Witness ==
    /\ pc = "sleepBook"
    /\ fin.outcome = "ok"
    /\ fin.n = 2
    /\ Cardinality(StoredInVisit) = 2

\* C8 as claimed: two consecutive aggregator invocations of the batch job for one
\* book are at least six hours apart, however the earlier one ended.
C8_AlwaysSixHoursApart ==
    \A b \in Books : aggPrev[b] # NoTime => aggAt[b] - aggPrev[b] >= SixHoursMs

\* C8 as amended: when the processing that followed an aggregator invocation went
\* on to update lastSearched (results or none, every step succeeding), the next
\* invocation for that book comes at least six hours later; after a caught failure
\* lastSearched is as before and the next run may invoke the aggregator at once.
C8_SixHoursApartAfterUpdate ==
    [][\A b \in Books :
          (aggAt'[b] # aggAt[b] /\ aggAt[b] # NoTime /\ lastSearched[b] >= aggAt[b]) =>
              aggAt'[b] - aggAt[b] >= SixHoursMs]_vars

\* a book is searched again exactly when its throttle ends
C8_Witness ==
    \E b \in Books :
        /\ aggPrev[b] # NoTime
        /\ aggAt[b] = aggPrev[b] + SearchMs + SixHoursMs

(***************************************************************************)
(* Properties of the callable operations, checked under SpecApi.           *)
(***************************************************************************)
\* what a connector returned: [] when its body threw
Returned(body) == IF body.threw THEN <<>> ELSE body.rows

\* searchBook has returned the results of the aggregator
Answered == apc = "ready" /\ req.op = "searchBook" /\ resp.code = "ok"

\* the positions of a list that hold the first occurrence of their link
FirstPositions(list) ==
    {i \in 1..Len(list) : \A j \in 1..(i - 1) : list[j].link # list[i].link}

\* the k-th smallest member of a set of positions
Kth(P, k) == CHOOSE i \in P : Cardinality({j \in P : j < i}) = k - 1

\* C2: the list searchAllPlatforms returns holds no link twice; it holds, for each
\* link of the Craigslist list followed by the Reddit list, the entry of the first
\* occurrence, in that order, whichever connector settled first.
C2_Dedupe ==
    Answered =>
        LET flat == Returned(bodies[1]) \o Returned(bodies[2])
            out == resp.results
        IN  /\ \A i, j \in 1..Len(out) : i # j => out[i].link # out[j].link
            /\ Len(out) = Cardinality(FirstPositions(flat))
            /\ \A k \in 1..Len(out) : out[k] = flat[Kth(FirstPositions(flat), k)]

\* Reddit settled first, and a link of the Craigslist list shows again in both lists
C2_Witness ==
    /\ Answered
    /\ order = <<2, 1>>
    /\ Len(Returned(bodies[1])) = 2
    /\ Returned(bodies[1])[1].link = Returned(bodies[1])[2].link
    /\ Returned(bodies[1])[1].title # Returned(bodies[1])[2].title
    /\ \E k \in 1..Len(Returned(bodies[2])) :
          Returned(bodies[2])[k].link = Returned(bodies[1])[1].link
    /\ Len(resp.results) < Len(Returned(bodies[1])) + Len(Returned(bodies[2]))

\* C7: when one connector throws, searchAllPlatforms still returns, and returns
\* what the other connector produced: every Reddit result when Craigslist threw,
\* and the first entry of every Craigslist link when Reddit threw.
C7_FaultIsolation ==
    Answered =>
        /\ bodies[1].threw => resp.results = Returned(bodies[2])
        /\ bodies[2].threw =>
              /\ \A i \in 1..Len(Returned(bodies[1])) :
                    \E k \in 1..Len(resp.results) :
                        resp.results[k].link = Returned(bodies[1])[i].link
              /\ \A k \in 1..Len(resp.results) :
                    \E i \in FirstPositions(Returned(bodies[1])) :
                        resp.results[k] = Returned(bodies[1])[i]

\* Craigslist threw and the two Reddit results came back
C7_Witness ==
    /\ Answered
    /\ bodies[1].threw
    /\ ~bodies[2].threw
    /\ Len(resp.results) = 2
    /\ resp.results = bodies[2].rows

\* the step rejected the request before any work
RejectedBeforeWork(code) ==
    /\ resp'.code = code
    /\ effects' = {}
    /\ apc' = "ready"
    /\ UNCHANGED <<storeVars, bodies, slots, order>>

\* C9: searchBook rejects a caller without authentication as unauthenticated and
\* an authenticated caller without a title as invalid-argument,
\* markNotificationRead rejects a caller without authentication as
\* unauthenticated, and each rejection comes before any connector request and any
\* access to a stored record.
C9_RejectBeforeWork ==
    [][apc = "ready" =>
          /\ (req'.op = "searchBook" /\ ~req'.auth) =>
                RejectedBeforeWork("unauthenticated")
          /\ (req'.op = "searchBook" /\ req'.auth /\ req'.bookTitle \in {Undefined, ""}) =>
                RejectedBeforeWork("invalid-argument")
          /\ (req'.op = "markNotificationRead" /\ ~req'.auth) =>
                RejectedBeforeWork("unauthenticated")]_vars

\* an authenticated request without a title has been rejected with notifications
\* in the store
C9_Witness ==
    /\ req.op = "searchBook"
    /\ req.auth
    /\ req.bookTitle = ""
    /\ resp.code = "invalid-argument"
    /\ effects = {}
    /\ notifications # {}

\* C10: no step of searchBook, whether it ends in results or in an error, changes a
\* notification or a book's lastSearched or sends an email.
C10_SearchBookReadOnly ==
    [][(req'.op = "searchBook" /\ (apc = "fanout" \/ apc' = "fanout" \/ req' # req
                                   \/ resp' # resp)) =>
          UNCHANGED <<lastSearched, notifications, nextId, emails>>]_vars

\* searchBook has returned results with notifications and a lastSearched in the store
C10_Witness ==
    /\ Answered
    /\ Len(resp.results) > 0
    /\ notifications # {}
    /\ \E b \in Books : lastSearched[b] # NoTime

(***************************************************************************)
(* Properties of cleanupOldNotifications, checked under SpecSweep.         *)
(***************************************************************************)
\* the step on which the sweep's batch commit is acknowledged
CommitAcknowledged == spc = "commit" /\ spc' = "done" /\ failures' = failures

\* C11: an invocation of cleanupOldNotifications that finds n stored notifications
\* older than 30 days, and whose batch commit is accepted, deletes exactly
\* min(n, 500) of them and only such notifications; no other step of the sweep
\* deletes anything.
C11_CleanupCap ==
    /\ [][CommitAcknowledged =>
             LET eligible == Expired(notifications, now)
                 n == Cardinality(eligible)
                 deleted == notifications \ notifications'
             IN  /\ notifications' \subseteq notifications
                 /\ deleted \subseteq eligible
                 /\ Cardinality(deleted) = IF n < CleanupLimit THEN n ELSE CleanupLimit
          ]_vars
    /\ [][~CommitAcknowledged => notifications' = notifications]_vars

\* the first sweep found 600 eligible notifications and a younger one: it has deleted
\* 500, and 100 eligible ones and the younger one remain
C11_Witness ==
    /\ spc = "done"
    /\ sweeps = 1
    /\ Cardinality(oldNotifications) = CleanupLimit
    /\ Cardinality(Expired(notifications, now)) = 100
    /\ \A d \in notifications : d.id \notin oldNotifications
    /\ notifications \ Expired(notifications, now) # {}

(***************************************************************************)
(* Properties of the notifications collection, checked under SpecStore.    *)
(***************************************************************************)
\* the stored notification with id i
DocOf(docs, i) == CHOOSE d \in docs : d.id = i

Ids(docs) == {d.id : d \in docs}

\* the step is a markNotificationRead request for id i that returned { success }
MarkedNow(i) ==
    /\ calls' = calls + 1
    /\ req'.op = "markNotificationRead"
    /\ req'.auth
    /\ req'.notificationId = i
    /\ resp'.code = "ok"

\* C12: a notification is created with read = false; in every reachable state a
\* stored notification's read flag is true only if markNotificationRead has succeeded
\* for its id; the flag becomes true only on the step of such a request, whatever
\* the batch job, a manual search or the retention sweep do; and it never goes back
\* to false.
C12_ReadFlag ==
    /\ [](\A d \in notifications : d.read => d.id \in marked)
    /\ [][\A i \in Ids(notifications') \ Ids(notifications) :
              ~DocOf(notifications', i).read]_vars
    /\ [][\A i \in Ids(notifications') \cap Ids(notifications) :
              /\ DocOf(notifications, i).read => DocOf(notifications', i).read
              /\ ~DocOf(notifications, i).read /\ DocOf(notifications', i).read
                     => MarkedNow(i)]_vars
    /\ [][\A i \in marked' \ marked : MarkedNow(i)]_vars

\* the batch job has stored notifications, one of which a markNotificationRead
\* request has marked read and another is still unread, and the sweep has deleted
\* the expired notification
C12_Witness ==
    /\ \E d \in notifications : d.id >= 3 /\ d.read /\ d.id \in marked
    /\ \E d \in notifications : d.id >= 3 /\ ~d.read
    /\ req.op = "markNotificationRead" /\ resp.code = "ok" /\ apc = "ready"
    /\ spc = "done" /\ oldNotifications = {1} /\ 1 \notin Ids(notifications)
    /\ runEnd = "completed"

(***************************************************************************)
(* Properties of the loops of dailyBookSearch, checked under Spec.         *)
(***************************************************************************)
\* the users the users query leaves out: notifications false or absent
Unnotified == {UserIds[i] : i \in {j \in 1..Len(UserIds) :
                                       UserDoc(UserIds[j]).notifications # "true"}}

\* C13: dailyBookSearch never processes a user whose notifications flag is false or
\* absent: no book of such a user is visited or handed to the aggregator or has its
\* lastSearched changed, no email goes to such a user and no notification is stored
\* for one.
C13_OnlyNotifiedUsers ==
    /\ curUser \notin Unnotified
    /\ \A b \in Books :
          BookDoc(b).userId \in Unnotified =>
              /\ curBook # b
              /\ visit[b] = NoVisit
              /\ aggAt[b] = NoTime
              /\ lastSearched[b] = NoTime
    /\ \A u \in Unnotified :
          /\ \A i \in 1..Len(emails) : emails[i].to # UserDoc(u).email
          /\ \A d \in notifications : d.userId # u

\* a run has completed and has searched, mailed and stored notifications for the
\* users with the flag, while the users without it (flag false, flag absent) have
\* books on the shelf
C13_Witness ==
    /\ runEnd = "completed"
    /\ \E i \in 1..Len(emails) : emails[i].to = UserDoc("u2").email
    /\ \E d \in notifications : d.userId = "u1"
    /\ \E b \in Books : BookDoc(b).userId = "u3" /\ UserDoc("u3").notifications = "false"
    /\ \E b \in Books : BookDoc(b).userId = "u4" /\ UserDoc("u4").notifications = Undefined

(***************************************************************************)
(* The connectors searchCraigslist and searchReddit from the inside.       *)
(* A string is the sequence of its characters.                             *)
(***************************************************************************)
UpperCase == <<"A", "B", "C", "D", "E", "F", "G", "H", "I", "J", "K", "L", "M", "N", "O", "P", "Q", "R", "S", "T", "U", "V", "W", "X", "Y", "Z">>
LowerCase == <<"a", "b", "c", "d", "e", "f", "g", "h", "i", "j", "k", "l", "m", "n", "o", "p", "q", "r", "s", "t", "u", "v", "w", "x", "y", "z">>

\* String.prototype.toLowerCase
toLowerCase(s) ==
    [i \in 1..Len(s) |->
        IF \E k \in 1..Len(UpperCase) : UpperCase[k] = s[i]
        THEN LowerCase[CHOOSE k \in 1..Len(UpperCase) : UpperCase[k] = s[i]]
        ELSE s[i]]

\* String.prototype.includes
includes(s, t) == \E i \in 0..(Len(s) - Len(t)) : SubSeq(s, i + 1, i + Len(t)) = t

\* String.prototype.split(' '): the pieces between single spaces, empty ones included
RECURSIVE split(_)
split(s) ==
    IF \A i \in 1..Len(s) : s[i] # " "
    THEN <<s>>
    ELSE LET k == CHOOSE i \in 1..Len(s) : s[i] = " " /\ \A j \in 1..(i - 1) : s[j] # " "
         IN  <<SubSeq(s, 1, k - 1)>> \o split(SubSeq(s, k + 1, Len(s)))

\* String.prototype.trim
RECURSIVE trim(_)
trim(s) ==
    IF s # <<>> /\ Head(s) = " " THEN trim(Tail(s))
    ELSE IF s # <<>> /\ s[Len(s)] = " " THEN trim(SubSeq(s, 1, Len(s) - 1))
    ELSE s

Str_book == <<"b", "o", "o", "k">>
Str_novel == <<"n", "o", "v", "e", "l">>
Str_textbook == <<"t", "e", "x", "t", "b", "o", "o", "k">>
Str_forSale == <<"f", "o", "r", " ", "s", "a", "l", "e">>
Str_selling == <<"s", "e", "l", "l", "i", "n", "g">>
Str_sale == <<"s", "a", "l", "e">>
Str_dollar == <<"$">>
Str_Dune == <<"D", "u", "n", "e">>
Str_DuneSpace == <<"D", "u", "n", "e", " ">>
Str_Emma == <<"E", "m", "m", "a">>
Str_Herbert == <<"H", "e", "r", "b", "e", "r", "t">>
Str_RedCouch == <<"R", "e", "d", " ", "C", "o", "u", "c", "h", " ", "f", "o", "r", " ", "s", "a", "l", "e">>
Str_DunePaperback == <<"D", "u", "n", "e", " ", "p", "a", "p", "e", "r", "b", "a", "c", "k", " ", "b", "o", "o", "k">>
Str_DuneUpper == <<" ", "D", "U", "N", "E", " ", "f", "i", "r", "s", "t", " ", "e", "d", "i", "t", "i", "o", "n", " ">>
Str_OldNovel == <<"O", "l", "d", " ", "N", "o", "v", "e", "l">>
Str_DuneForSale == <<"D", "u", "n", "e", " ", "f", "o", "r", " ", "s", "a", "l", "e">>
Str_SellingDune == <<"S", "e", "l", "l", "i", "n", "g", " ", "D", "u", "n", "e">>
Str_DunePrice == <<"D", "u", "n", "e", " ", "$", "5">>
Str_DuneReview == <<"D", "u", "n", "e", " ", "r", "e", "v", "i", "e", "w">>
Str_WTS == <<"[", "W", "T", "S", "]", " ", "p", "a", "p", "e", "r", "b", "a", "c", "k", "s">>

\* const searchQuery = author ? `${bookTitle} ${author}` : bookTitle, character by
\* character; an absent author and an empty one are both falsy and are both <<>>
searchQueryText(bookTitle, author) ==
    IF author # <<>> THEN bookTitle \o <<" ">> \o author ELSE bookTitle

\* if (index >= 8) return false
CraigslistRowLimit == 8
\* return uniqueResults.slice(0, 5)
RedditResultLimit == 5

\* link?.startsWith('http') ? link : `https://craigslist.org${link}`
CraigslistLink(href) ==
    CASE href = Undefined -> "https://craigslist.orgundefined"
      [] href = "/L1" -> "https://craigslist.org/L1"
      [] href = "/L2" -> "https://craigslist.org/L2"
      [] OTHER -> href

\* the test that decides whether a row is pushed
RelatesToBooks(title, query) ==
    LET titleLower == toLowerCase(title)
        words == split(query)
    IN  \/ includes(titleLower, Str_book)
        \/ includes(titleLower, Str_novel)
        \/ includes(titleLower, Str_textbook)
        \/ \E i \in 1..Len(words) : includes(titleLower, toLowerCase(words[i]))

\* Array.prototype.slice(0, n)
slice(self, n) == SubSeq(self, 1, IF Len(self) < n THEN Len(self) ELSE n)

\* a .result-row element: the text of its .result-title, <<>> when there is none,
\* and the href of it, Undefined when there is none
ResultRow(title, href) == [title |-> title, href |-> href]

\* the Craigslist response: the request failed, or a page with these rows
RequestFailed == [failed |-> TRUE, rows |-> <<>>]
Page(rows) == [failed |-> FALSE, rows |-> rows]

\* the try block of searchCraigslist: the request throws, or the first 8 rows are
\* read, and pushed when they relate to books
searchCraigslistBody(query, response) ==
    IF response.failed
    THEN Threw
    ELSE LET read == slice(response.rows, CraigslistRowLimit)
             Keep(row) == RelatesToBooks(trim(row.title), query)
             kept == SelectSeq(read, Keep)
         IN  Rows([i \in 1..Len(kept) |->
                      CraigslistResult(trim(kept[i].title), CraigslistLink(kept[i].href))])

\* a child of response.data.data.children: `data` may be missing
Post(data, title, selftext, over18, subredditType, permalink) ==
    [data |-> data, title |-> title, selftext |-> selftext, over_18 |-> over18,
     subreddit_type |-> subredditType, permalink |-> permalink]

\* a Reddit response: the request failed, the body has no children, or these posts
NoChildren == [failed |-> FALSE, children |-> FALSE, posts |-> <<>>]
RedditFailed == [failed |-> TRUE, children |-> FALSE, posts |-> <<>>]
Children(posts) == [failed |-> FALSE, children |-> TRUE, posts |-> posts]

SellingPost_Unfiltered(post) ==
    LET combined == toLowerCase(post.title \o <<" ">> \o post.selftext)
    IN  \/ includes(combined, Str_forSale)
        \/ includes(combined, Str_selling)
        \/ includes(combined, Str_sale)
        \/ includes(combined, Str_dollar)

\* the test that decides whether a post is pushed
SellingPost(post) ==
    LET combined == toLowerCase(post.title \o <<" ">> \o post.selftext)
    IN  /\ \/ includes(combined, Str_forSale)
           \/ includes(combined, Str_selling)
           \/ includes(combined, Str_sale)
           \/ includes(combined, Str_dollar)
        /\ ~post.over_18
        /\ post.subreddit_type = "public"

\* reading postData.title of a child without `data` throws a TypeError
PostThrows(post) == ~post.data

\* what one response adds to `results`
PostsPushed(response) ==
    LET kept == SelectSeq(response.posts, SellingPost)
    IN  [i \in 1..Len(kept) |-> RedditResult(kept[i].title, kept[i].permalink)]

\* the responses in a feed, concatenated in the order of the search terms
RECURSIVE AllPushed(_)
AllPushed(feed) ==
    IF feed = <<>> THEN <<>> ELSE PostsPushed(Head(feed)) \o AllPushed(Tail(feed))

\* the try block of searchReddit: a request or a child throws and the outer catch
\* takes over, or the pushed results are deduplicated by link and cut to five
searchRedditBody(feed) ==
    IF \E t \in 1..Len(feed) :
          \/ feed[t].failed
          \/ \E i \in 1..Len(feed[t].posts) : PostThrows(feed[t].posts[i])
    THEN Threw
    ELSE Rows(slice(uniqueResults(AllPushed(feed)), RedditResultLimit))

\* the rows a Craigslist page may hold
RowSet ==
    {ResultRow(Str_RedCouch, "/L1"),
     ResultRow(Str_DunePaperback, "/L2"),
     ResultRow(Str_DuneUpper, "http://sfbay.craigslist.org/L3"),
     ResultRow(Str_OldNovel, Undefined),
     ResultRow(<<>>, Undefined)}

\* a page with more rows than are read
LongPage ==
    [i \in 1..(CraigslistRowLimit + 1) |->
        IF i <= CraigslistRowLimit THEN ResultRow(Str_RedCouch, "/L1")
        ELSE ResultRow(Str_DunePaperback, "/L2")]

CraigslistResponses ==
    {RequestFailed, Page(LongPage)} \cup {Page(rows) : rows \in BoundedSeq(RowSet, MaxRows)}

\* the search queries the batch job builds and callers pass
BookTitles == {Str_Dune, Str_DuneSpace, Str_Emma}
Authors == {<<>>, Str_Herbert}
Queries == {searchQueryText(t, a) : t \in BookTitles, a \in Authors}

\* the posts a Reddit response may hold
PostSet ==
    {Post(TRUE, Str_DuneForSale, <<>>, FALSE, "public", "/r/p1"),
     Post(TRUE, Str_SellingDune, Str_DunePrice, TRUE, "public", "/r/p2"),
     Post(TRUE, Str_DunePrice, <<>>, FALSE, "private", "/r/p3"),
     Post(TRUE, Str_DuneReview, Str_WTS, FALSE, "public", "/r/p4"),
     Post(FALSE, <<>>, <<>>, FALSE, "public", "/r/p5")}

RedditResponses ==
    {RedditFailed, NoChildren} \cup {Children(posts) : posts \in BoundedSeq(PostSet, MaxPosts)}

\* the permalinks of seven more posts
Permalinks == <<"/r/q1", "/r/q2", "/r/q3", "/r/q4", "/r/q5", "/r/q6", "/r/q7">>

\* a public post that offers the book for sale
SalePost(n) == Post(TRUE, Str_DuneForSale, <<>>, FALSE, "public", Permalinks[n])

\* responses that together hold more matching posts than searchReddit returns, some
\* of them found by more than one search term
LongResponses ==
    {Children(<<SalePost(1), SalePost(2), SalePost(3)>>),
     Children(<<SalePost(2), SalePost(4), SalePost(1), SalePost(5)>>),
     Children(<<SalePost(6), Post(TRUE, Str_SellingDune, Str_DunePrice, TRUE, "public", "/r/p2"),
                SalePost(3), SalePost(7)>>),
     NoChildren}

\* the three search terms of searchReddit
SearchTerms == 1..3

LongFeeds == [SearchTerms -> LongResponses]

\* what the three requests of one call may come to
RedditFeeds ==
    {feed \in [SearchTerms -> RedditResponses] :
        Len(feed[1].posts) + Len(feed[2].posts) + Len(feed[3].posts) <= MaxFeedPosts}
    \cup LongFeeds

\* a connector is about to be called with a query, and the response or responses it
\* will receive
InitConn ==
    /\ pc = "idle"
    /\ userQueue = <<>>
    /\ curUser = "none"
    /\ bookQueue = <<>>
    /\ curBook = "none"
    /\ results = <<>>
    /\ runs = 0
    /\ failures = 0
    /\ searches = 0
    /\ mark = NoMark
    /\ fin = NoFin
    /\ aggAt = [b \in Books |-> NoTime]
    /\ aggPrev = [b \in Books |-> NoTime]
    /\ apc = "ready"
    /\ req = NoReq
    /\ bodies = <<Rows(<<>>), Rows(<<>>)>>
    /\ slots = <<Fulfilled(<<>>), Fulfilled(<<>>)>>
    /\ order = <<>>
    /\ resp = NoResp
    /\ effects = {}
    /\ calls = 0
    /\ marked = {}
    /\ visit = [b \in Books |-> NoVisit]
    /\ runEnd = "none"
    /\ spc = "idle"
    /\ oldNotifications = {}
    /\ sweeps = 0
    /\ now = 0
    /\ lastSearched = [b \in Books |-> NoTime]
    /\ notifications = {}
    /\ nextId = 1
    /\ emails = <<>>
    /\ connOut = <<>>
    /\ \/ /\ cpc = "craigslist"
          /\ searchQuery \in Queries
          /\ craigslistPage \in CraigslistResponses
          /\ redditFeed = <<>>
       \/ /\ cpc = "reddit"
          /\ searchQuery = Str_Dune
          /\ craigslistPage = <<>>
          /\ redditFeed \in RedditFeeds

\* searchCraigslist(searchQuery) returns
CallSearchCraigslist ==
    /\ cpc = "craigslist"
    /\ connOut' = searchCraigslist(searchCraigslistBody(searchQuery, craigslistPage)).value
    /\ cpc' = "craigslistDone"
    /\ UNCHANGED <<now, storeVars, jobVars, failures, searches, ghostVars, apiVars,
                   sweepVars, searchQuery, craigslistPage, redditFeed>>

\* searchReddit(searchQuery) returns
CallSearchReddit ==
    /\ cpc = "reddit"
    /\ connOut' = searchReddit(searchRedditBody(redditFeed)).value
    /\ cpc' = "redditDone"
    /\ UNCHANGED <<now, storeVars, jobVars, failures, searches, ghostVars, apiVars,
                   sweepVars, searchQuery, craigslistPage, redditFeed>>

NextConn ==
    \/ CallSearchCraigslist
    \/ CallSearchReddit

SpecConn == InitConn /\ [][NextConn]_vars

(***************************************************************************)
(* Properties of the connectors, checked under SpecConn.                   *)
(***************************************************************************)
\* the posts of a feed, whatever response they came in
PostsOf(feed) ==
    UNION {{feed[t].posts[i] : i \in 1..Len(feed[t].posts)} : t \in 1..Len(feed)}

\* the entries of a list of results
Entries(list) == {list[i] : i \in 1..Len(list)}

\* the post appears in the output
Appears(post, out) ==
    \E r \in Entries(out) : r.title = post.title /\ r.link = post.permalink

\* C14: whatever the three Reddit responses hold, no post with over_18 set and no post
\* of a subreddit whose type is not 'public' appears in the output of searchReddit,
\* whatever sale or price keywords its title or body contains.
C14_ContentFilter ==
    cpc = "redditDone" =>
        \A post \in PostsOf(redditFeed) :
            post.data /\ (post.over_18 \/ post.subreddit_type # "public")
                => ~Appears(post, connOut)

\* searchReddit has returned a post for sale, and has left out an adult post and a
\* post of a private subreddit from the same responses, both carrying the keywords
C14_Witness ==
    /\ cpc = "redditDone"
    /\ connOut # <<>>
    /\ \E post \in PostsOf(redditFeed) :
          post.data /\ post.over_18 /\ SellingPost_Unfiltered(post)
    /\ \E post \in PostsOf(redditFeed) :
          post.data /\ post.subreddit_type # "public" /\ SellingPost_Unfiltered(post)

\* the rows of the page that searchCraigslist reads
RowsRead == slice(craigslistPage.rows, CraigslistRowLimit)

\* the title names books: it contains 'book', 'novel' or 'textbook', whatever the case
NamesBooks(title) ==
    \/ includes(toLowerCase(title), Str_book)
    \/ includes(toLowerCase(title), Str_novel)
    \/ includes(toLowerCase(title), Str_textbook)

\* the words of the query: what stands between its spaces
QueryTokens(query) == {w \in Entries(split(query)) : w # <<>>}

\* the title contains a word of the query, whatever the case
SharesToken(title, query) ==
    \E w \in QueryTokens(query) : includes(toLowerCase(title), toLowerCase(w))

\* C15: for every search query, searchCraigslist keeps a row only if its title
\* contains 'book', 'novel' or 'textbook' or a token of the query: of the rows it
\* reads, one whose title contains none of the three words and no token of the query
\* is left out, and one titled 'Dune paperback book' is kept.
C15_RelevanceFilter ==
    cpc = "craigslistDone" /\ ~craigslistPage.failed =>
        /\ \A i \in 1..Len(RowsRead) :
              LET title == trim(RowsRead[i].title)
              IN  ~NamesBooks(title) /\ ~SharesToken(title, searchQuery)
                      => \A r \in Entries(connOut) : r.title # title
        /\ \A i \in 1..Len(RowsRead) :
              trim(RowsRead[i].title) = Str_DunePaperback
                  => \E r \in Entries(connOut) : r.title = Str_DunePaperback

\* the feed without its malformed children
WellFormedFeed(feed) ==
    LET HasData(post) == post.data
    IN  [t \in DOMAIN feed |-> [feed[t] EXCEPT !.posts = SelectSeq(@, HasData)]]

\* the page without its malformed rows
WellFormedPage(page) ==
    LET HasTitle(row) == row.title # <<>>
    IN  [page EXCEPT !.rows = SelectSeq(@, HasTitle)]

\* C16: a malformed Reddit post (a child without a data object) or Craigslist row (a
\* row without a title element) counts as a post or row that does not match: when the
\* requests succeed, the connector returns exactly what it returns for the same
\* responses without the malformed posts or rows, so every well-formed matching post or
\* row of every response is still in the output.
C16_MalformedTolerated ==
    /\ cpc = "redditDone" /\ (\A t \in SearchTerms : ~redditFeed[t].failed) =>
           connOut = searchReddit(searchRedditBody(WellFormedFeed(redditFeed))).value
    /\ cpc = "craigslistDone" /\ ~craigslistPage.failed =>
           connOut = searchCraigslist(
                         searchCraigslistBody(searchQuery,
                                              WellFormedPage(craigslistPage))).value

\* the step on which the email send, the notification write or the lastSearched
\* update of the current book throws
BookStepThrows == pc \in {"email", "save", "update"} /\ failures' = failures + 1

\* the outcomes of a visit in which a step threw
FailedOutcomes == {"emailFailed", "saveFailed", "updateFailed"}

\* the books the run has to visit, user by user
BooksDue ==
    {b \in Books : \E i \in 1..Len(UsersWithNotifications) :
                       BookDoc(b).userId = UsersWithNotifications[i]}

\* C17: when sendEmailToUser, saveNotifications or the lastSearched update throws for
\* a book, the job catches the error and goes on with the loop: the remaining books of
\* the user and the remaining users stay in line, and a run whose listing fetches
\* succeed ends only after it has visited every book of every user, searching each
\* one that the throttle let pass.
C17_BookFailureIsolated ==
    /\ [][BookStepThrows =>
             /\ pc' = "book"
             /\ runEnd' = "running"
             /\ bookQueue' = bookQueue
             /\ userQueue' = userQueue
             /\ visit'[curBook].outcome \in FailedOutcomes]_vars
    /\ [](runEnd = "completed" =>
             \A b \in BooksDue :
                 /\ visit[b].run = runs
                 /\ visit[b].outcome \in FailedOutcomes \cup {"ok", "skipped"}
                 /\ visit[b].outcome # "skipped" => aggAt[b] # NoTime)

\* the email send threw for b1; the run went on, found listings for b2 and for b3 of
\* the next user, mailed them and stored notifications for them
C17_Witness ==
    /\ runEnd = "completed"
    /\ runs = 1
    /\ visit["b1"].outcome = "emailFailed"
    /\ visit["b2"].outcome = "ok"
    /\ visit["b3"].outcome = "ok"
    /\ \E d \in notifications : d.bookTitle = BookDoc("b2").title
    /\ \E d \in notifications : d.bookTitle = BookDoc("b3").title
    /\ \E i \in 1..Len(emails) : emails[i].to = UserDoc("u2").email

\* the step on which the email send or the notification write of the current book
\* throws, before the update step is reached
DeliveryThrows == pc \in {"email", "save"} /\ failures' = failures + 1

\* the step on which the book loop takes book b
Takes(b) == pc = "book" /\ bookQueue # <<>> /\ Head(bookQueue) = b /\ mark' # mark

\* C18: when the email send or the notification write fails for a book, its
\* lastSearched is not advanced: it keeps the value the visit found, through the rest
\* of the run and until the book is visited again; so the next run that reaches the
\* book finds it past the throttle and hands it to the aggregator again.
C18_RetryByNextRun ==
    /\ [][DeliveryThrows => lastSearched' = lastSearched]_vars
    /\ [](\A b \in Books :
             visit[b].outcome \in {"emailFailed", "saveFailed"}
                 => lastSearched[b] = visit[b].ls0)
    /\ [][\A b \in Books :
             Takes(b) /\ visit[b].outcome \in {"emailFailed", "saveFailed"}
                 => /\ visit[b].run < runs
                    /\ ~Throttled(lastSearched[b], now)
                    /\ pc' = "search"
                    /\ visit'[b].outcome = "started"]_vars

\* run 1 mailed u1 about b1 and then failed to store the notifications; run 2 has
\* taken b1 again and has handed it to the aggregator a second time
C18_Witness ==
    /\ runs = 2
    /\ curBook = "b1"
    /\ pc \in {"email", "update"}
    /\ aggPrev["b1"] # NoTime
    /\ aggAt["b1"] > aggPrev["b1"]
    /\ lastSearched["b1"] = NoTime
    /\ \E i \in 1..Len(emails) : emails[i].bookTitle = BookDoc("b1").title
    /\ \A d \in notifications : d.bookTitle # BookDoc("b1").title

\* the step on which the users query or a user's books query rejects
FetchThrows == pc \in {"idle", "user"} /\ failures' = failures + 1

\* the ways a run ends on a rejected listing fetch
FetchFailures == {"usersFetchFailed", "booksFetchFailed"}

\* C19: when the users query or a user's books query rejects, the run ends on that
\* step: the handler returns with the store as the earlier books left it, the users
\* and books still in line are not processed, and until the trigger fires again no
\* aggregator call, email, notification write or lastSearched update takes place and
\* no fetch is tried again.
C19_FetchFailureAborts ==
    /\ [][FetchThrows =>
             /\ pc' = "done"
             /\ runEnd' \in FetchFailures
             /\ UNCHANGED <<storeVars, aggAt, visit, searches>>]_vars
    /\ [](runEnd \in FetchFailures => pc \in {"done", "idle"})
    /\ [][pc = "done" =>
             /\ pc' = "idle"
             /\ UNCHANGED <<storeVars, aggAt, visit, searches, failures, runs, runEnd>>
         ]_vars

\* the run has mailed and stored notifications for a book of u1; then the books query
\* of u2 rejected: the run is over and b3 of u2 has not been visited in it
C19_Witness ==
    /\ pc = "done"
    /\ runEnd = "booksFetchFailed"
    /\ runs = 1
    /\ curUser = "u2"
    /\ visit["b3"] = NoVisit
    /\ aggAt["b3"] = NoTime
    /\ visit["b1"].outcome = "ok"
    /\ emails # <<>>
    /\ notifications # {}
    /\ lastSearched["b1"] # NoTime

\* the books whose visit has started and has not finished
InFlight == {b \in Books : visit[b].outcome = "started"}

\* the positions of the job at which an aggregator call, an email send, a
\* notification write or a lastSearched update of a book is awaited
BookSteps == {"search", "email", "save", "update"}

\* C20: within a run the books and users are processed one after the other: at most
\* one book has an aggregator call, email send, notification write or lastSearched
\* update in flight, namely the current one, and the loop takes the next book only
\* when the visit of the book before it, together with its pause, is over.
C20_Serial ==
    /\ [](Cardinality(InFlight) <= 1)
    /\ [](pc \in BookSteps <=> InFlight = {curBook})
    /\ [](pc \notin BookSteps => InFlight = {})
    /\ [][mark' # mark =>
             /\ pc = "book"
             /\ InFlight = {}
             /\ mark.book # "none" => fin.book = mark.book /\ fin.start = mark.at
         ]_vars

\* b1 has been searched, mailed, stored and updated and its pause is over; b2, the
\* next book, is now the one in flight
C20_Witness ==
    /\ pc = "save"
    /\ curBook = "b2"
    /\ InFlight = {"b2"}
    /\ visit["b1"].run = runs
    /\ visit["b1"].outcome = "ok"
    /\ fin.book = "b1"
    /\ fin.mail1 > fin.mail0
    /\ mark.at >= fin.end + BookDelayMs

(***************************************************************************)
(* Pacing of dailyBookSearch, checked under Spec.                          *)
(***************************************************************************)
\* the books the current run has handed to the aggregator before the current one
SearchedBefore ==
    {b \in Books \ {curBook} :
        visit[b].run = runs /\ visit[b].outcome \notin {"none", "skipped"}}

\* the step ends the visit of a book that went to the aggregator
EndsSearchedBook == fin' # fin /\ fin'.outcome # "skipped"

\* C21: after each book for which the aggregator was invoked, whether its processing
\* succeeded or failed with a caught error, the job pauses 2 seconds before the next
\* book's aggregator invocation, and it pauses 1 second after each user; no two
\* aggregator invocations of one run are less than 2 seconds apart.
C21_FixedPacing ==
    /\ [][EndsSearchedBook => pc' = "sleepBook"]_vars
    /\ [][pc = "sleepBook" => now' = now + BookDelayMs]_vars
    /\ [][pc = "book" /\ bookQueue = <<>> => pc' = "sleepUser"]_vars
    /\ [][pc = "sleepUser" => now' = now + UserDelayMs]_vars
    /\ [][searches' = searches + 1 =>
            \A b \in SearchedBefore : now >= aggAt[b] + BookDelayMs]_vars

(***************************************************************************)
(* Deduplication and cap of searchReddit, checked under SpecConn.          *)
(***************************************************************************)
\* the posts of the three responses that match, in the order of the search terms and,
\* within a response, of its children; a child without data matches nothing
Matching(feed) ==
    LET Matches(post) == post.data /\ SellingPost(post)
    IN  SelectSeq(feed[1].posts \o feed[2].posts \o feed[3].posts, Matches)

\* the positions in `list` at which a link occurs for the first time
FirstOccurrences(list) ==
    {i \in 1..Len(list) : \A j \in 1..(i - 1) : list[j].permalink # list[i].permalink}

\* the three requests of the call were answered
AllAnswered == \A t \in SearchTerms : ~redditFeed[t].failed

\* C22: the output of searchReddit, over the three search terms together, holds no
\* link twice and at most 5 entries: its k-th entry is the k-th matching post whose
\* link has not occurred in an earlier matching post, for the first 5 such posts.
C22_DedupeAndCap ==
    cpc = "redditDone" /\ AllAnswered =>
        LET list == Matching(redditFeed)
            first == FirstOccurrences(list)
        IN  /\ \A i, j \in 1..Len(connOut) : i # j => connOut[i].link # connOut[j].link
            /\ Len(connOut) <= RedditResultLimit
            /\ Len(connOut) = IF Cardinality(first) < RedditResultLimit
                              THEN Cardinality(first) ELSE RedditResultLimit
            /\ \A k \in 1..Len(connOut) :
                  \E i \in first :
                      /\ Cardinality({j \in first : j < i}) = k - 1
                      /\ connOut[k].link = list[i].permalink
                      /\ connOut[k].title = list[i].title

\* no child of the three responses lacks its data object
NoMalformedChild == \A post \in PostsOf(redditFeed) : post.data

\* the same property for responses without a malformed child, where it holds
C22_DedupeAndCapWellFormed == NoMalformedChild => C22_DedupeAndCap

\* searchReddit has returned five entries for responses that held seven distinct
\* matching links, two of them more than once
C22_Witness ==
    /\ cpc = "redditDone"
    /\ AllAnswered
    /\ NoMalformedChild
    /\ Cardinality(FirstOccurrences(Matching(redditFeed))) = 7
    /\ Len(Matching(redditFeed)) >= 9
    /\ Len(connOut) = RedditResultLimit
    /\ connOut[4].link = "/r/q4"

====
